---------------------------- MODULE Spec2Model ----------------------------
(* Timetable-image-to-calendar service (src/main.py).                      *)
(*                                                                         *)
(* Two request handlers are modelled:                                      *)
(*   upload_timetable_image -> parse_timetable_text (OCR text to events)   *)
(*   create_events_in_calendar -> create_google_event (events to calendar) *)
(* together with the pure helpers they call: the 5-digit scan,             *)
(* get_next_weekday_date and parse_time.                                   *)
(*                                                                         *)
(* Text values (OCR text, day names, time strings, day letters) are        *)
(* sequences of one-character strings.  A calendar date is a day number;   *)
(* day 0 is a Monday, so date.weekday() is the day number modulo 7.        *)
EXTENDS Integers, Sequences, FiniteSets, TLC

VARIABLES
    today,              \* datetime.now().date(): the wall clock's date
    ticks,              \* how many times midnight has passed
    call, ret,          \* a direct call of a helper and its return value
    text, crns,         \* parse_timetable_text: its argument, the CRNs found
    upc,                \* upload handler: position
    ci,                 \* index in crns of the CRN being looked up
    section,            \* the section whose day letters are being walked
    di,                 \* index of the next day letter of section.days
    events,             \* parse_timetable_text: the events list
    producedOn,         \* per event: the date on which it was appended
    emitLog,            \* per day letter / arranged section: what was appended
    uploadResp,         \* what upload_timetable_image returned
    cpc,                \* create handler: position
    input,              \* create_events_in_calendar: its events argument
    unique,             \* list(unique_events.values())
    uniqueFrom,         \* per kept event: its index in input
    idx,                \* index in unique of the event being processed
    creation_results,   \* creation_results
    submitted,          \* the service.events().insert(...) calls, in order
    outcome,            \* per processed event: how its loop body ended
    serviceCalls,       \* number of get_calendar_service() calls so far
    response            \* what create_events_in_calendar returned

vars == <<today, ticks, call, ret, text, crns, upc, ci, section, di, events,
          producedOn, emitLog, uploadResp, cpc, input, unique, uniqueFrom,
          idx, creation_results, submitted, outcome, serviceCalls, response>>

probeVars  == <<call, ret>>
clockVars  == <<today, ticks>>
uploadVars == <<text, crns, upc, ci, section, di, events, producedOn,
                emitLog, uploadResp>>
createVars == <<cpc, input, unique, uniqueFrom, idx, creation_results,
                submitted, outcome, serviceCalls, response>>

-----------------------------------------------------------------------------
(* Bounds of the model.                                                    *)

\* longest OCR text given to the 5-digit scan
MaxTextLen == 10
\* last date on which a request may start
MaxStartDay == 6
\* how many times midnight may pass while a request is in progress
MaxTicks == 1
\* longest events list posted to /create-events
MaxEvents == 3
\* last start date carried by an event given directly to create_google_event
MaxEventDay == 7

-----------------------------------------------------------------------------
(* Text helpers.                                                           *)

Digits == {"0", "1", "2", "3", "4", "5", "6", "7", "8", "9"}

DigitVal(c) ==
    CASE c = "0" -> 0 [] c = "1" -> 1 [] c = "2" -> 2 [] c = "3" -> 3
      [] c = "4" -> 4 [] c = "5" -> 5 [] c = "6" -> 6 [] c = "7" -> 7
      [] c = "8" -> 8 [] c = "9" -> 9

\* str.lower() on one character (the letters the model's texts use)
LowerChar(c) ==
    CASE c = "A" -> "a" [] c = "D" -> "d" [] c = "E" -> "e" [] c = "F" -> "f"
      [] c = "H" -> "h" [] c = "I" -> "i" [] c = "M" -> "m" [] c = "N" -> "n"
      [] c = "O" -> "o" [] c = "P" -> "p" [] c = "R" -> "r" [] c = "S" -> "s"
      [] c = "T" -> "t" [] c = "U" -> "u" [] c = "W" -> "w" [] c = "Y" -> "y"
      [] OTHER -> c

\* str.upper() on one character
UpperChar(c) ==
    CASE c = "a" -> "A" [] c = "d" -> "D" [] c = "e" -> "E" [] c = "f" -> "F"
      [] c = "h" -> "H" [] c = "i" -> "I" [] c = "m" -> "M" [] c = "n" -> "N"
      [] c = "o" -> "O" [] c = "p" -> "P" [] c = "r" -> "R" [] c = "s" -> "S"
      [] c = "t" -> "T" [] c = "u" -> "U" [] c = "w" -> "W" [] c = "y" -> "Y"
      [] OTHER -> c

Lower(s) == [i \in 1..Len(s) |-> LowerChar(s[i])]
Upper(s) == [i \in 1..Len(s) |-> UpperChar(s[i])]

\* s.replace(" ", "")
StripSpaces(s) == SelectSeq(s, LAMBDA c : c # " ")

\* sub in s  (Python's substring test)
Contains(s, sub) ==
    \E k \in 0..(Len(s) - Len(sub)) :
        \A j \in 1..Len(sub) : s[k + j] = sub[j]

-----------------------------------------------------------------------------
(* The Identifier Extractor: re.findall(r'(\d{5})', text).                 *)

\* a scan that resumes one character behind the start of a match
AfterMatchOverlapping(i) == i + 1

\* the scan step after a match at position i: the next search starts
\* behind the five characters consumed
AfterMatch(i) == i + 5

RECURSIVE FindAllFrom(_, _)
FindAllFrom(s, i) ==
    IF i + 4 > Len(s) THEN <<>>
    ELSE IF \A j \in i..(i + 4) : s[j] \in Digits
         THEN <<SubSeq(s, i, i + 4)>> \o FindAllFrom(s, AfterMatch(i))
         ELSE FindAllFrom(s, i + 1)

FindAll5(s) == FindAllFrom(s, 1)

-----------------------------------------------------------------------------
(* Dates and weekdays.                                                     *)

Weekday(d) == d % 7

days_of_week ==
    << <<"m","o","n","d","a","y">>,
       <<"t","u","e","s","d","a","y">>,
       <<"w","e","d","n","e","s","d","a","y">>,
       <<"t","h","u","r","s","d","a","y">>,
       <<"f","r","i","d","a","y">>,
       <<"s","a","t","u","r","d","a","y">>,
       <<"s","u","n","d","a","y">> >>

\* days_of_week.index(name), 0-based; -1 stands for the ValueError
IndexOfDay(name) ==
    IF \E k \in 1..7 : days_of_week[k] = name
    THEN (CHOOSE k \in 1..7 : days_of_week[k] = name) - 1
    ELSE -1

\* get_next_weekday_date without its "if days_ahead == 0" branch
get_next_weekday_date_or_today(day_name, now) ==
    LET target_day_index == IndexOfDay(Lower(day_name)) IN
    IF target_day_index = -1 THEN now
    ELSE now + ((target_day_index - Weekday(now) + 7) % 7)

get_next_weekday_date(day_name, now) ==
    LET target_day_index == IndexOfDay(Lower(day_name)) IN
    IF target_day_index = -1 THEN now
    ELSE LET days_ahead == (target_day_index - Weekday(now) + 7) % 7 IN
         now + (IF days_ahead = 0 THEN 7 ELSE days_ahead)

-----------------------------------------------------------------------------
(* parse_time: '%I:%M%p' first, then '%H:%M', on the upper-cased string    *)
(* with its spaces removed.                                                *)

\* None where the program has text: a missing dict key, a missing attribute
None == <<"<None>">>

NoTime == [kind |-> "none"]
Time(h, m) == [kind |-> "time", hour |-> h, minute |-> m]

AllDigits(s) == \A i \in 1..Len(s) : s[i] \in Digits

Num(s) ==
    IF Len(s) = 1 THEN DigitVal(s[1])
    ELSE 10 * DigitVal(s[1]) + DigitVal(s[2])

\* position of the first ":" of s, 0 when there is none
ColonPos(s) ==
    IF \E i \in 1..Len(s) : s[i] = ":"
    THEN CHOOSE i \in 1..Len(s) :
            s[i] = ":" /\ \A j \in 1..(i - 1) : s[j] # ":"
    ELSE 0

\* %M : [0-5]\d|\d
MinuteOk(m) ==
    /\ Len(m) \in {1, 2}
    /\ AllDigits(m)
    /\ Len(m) = 2 => DigitVal(m[1]) <= 5

\* %I : 1[0-2]|0[1-9]|[1-9]
Hour12Ok(h) == Len(h) \in {1, 2} /\ AllDigits(h) /\ Num(h) \in 1..12

\* %H : 2[0-3]|[0-1]\d|\d
Hour24Ok(h) == Len(h) \in {1, 2} /\ AllDigits(h) /\ Num(h) \in 0..23

\* datetime.strptime(s, "%I:%M%p").time(), NoTime for the ValueError
Strptime12(s) ==
    LET p    == ColonPos(s)
        h    == SubSeq(s, 1, p - 1)
        m    == SubSeq(s, p + 1, Len(s) - 2)
        ampm == SubSeq(s, Len(s) - 1, Len(s))
    IN  IF /\ p > 0
           /\ Len(s) >= p + 3
           /\ ampm \in {<<"A", "M">>, <<"P", "M">>}
           /\ Hour12Ok(h)
           /\ MinuteOk(m)
        THEN Time((Num(h) % 12) + (IF ampm = <<"P", "M">> THEN 12 ELSE 0),
                  Num(m))
        ELSE NoTime

\* datetime.strptime(s, "%H:%M").time(), NoTime for the ValueError
Strptime24(s) ==
    LET p == ColonPos(s)
        h == SubSeq(s, 1, p - 1)
        m == SubSeq(s, p + 1, Len(s))
    IN  IF p > 0 /\ Hour24Ok(h) /\ MinuteOk(m)
        THEN Time(Num(h), Num(m))
        ELSE NoTime

parse_time(time_str) ==
    IF time_str = None THEN NoTime      \* AttributeError, caught
    ELSE LET s == Upper(StripSpaces(time_str)) IN
         IF Strptime12(s) # NoTime THEN Strptime12(s) ELSE Strptime24(s)

-----------------------------------------------------------------------------
(* Values of an event's start_datetime / end_datetime.                     *)

NoDT == [kind |-> "none"]

\* a datetime object
DateTime(d, t) ==
    [kind |-> "datetime", date |-> d, hour |-> t.hour, minute |-> t.minute]

\* the string "YYYY-MM-DD<sep>HH:MM:00"
IsoStr(d, h, m, sep) ==
    [kind |-> "str", sep |-> sep, date |-> d, hour |-> h, minute |-> m]

\* a string that is no ISO date-time
BadStr == [kind |-> "str", chars |-> <<"s","o","o","n">>]
NoneStr == [kind |-> "str", chars |-> <<"N","o","n","e">>]

IsStr(v) == v.kind = "str"
IsIso(v) == v.kind = "str" /\ "sep" \in DOMAIN v

\* datetime.isoformat(), which is how the upload response carries a datetime
IsoFormat(dt) == IsoStr(dt.date, dt.hour, dt.minute, "T")

\* datetime.fromisoformat(v) of a string v that parses
FromIso(v) == [kind |-> "datetime", date |-> v.date, hour |-> v.hour,
               minute |-> v.minute]

\* str(v)
Str(v) ==
    CASE v.kind = "none"     -> NoneStr
      [] v.kind = "str"      -> v
      [] v.kind = "datetime" -> IsoStr(v.date, v.hour, v.minute, " ")

\* bool(v) of a start_datetime value, and of a text or None
TruthyDT(v) == v.kind # "none" /\ (v.kind = "str" /\ ~IsIso(v) => v.chars # <<>>)
TruthyText(s) == s # None /\ s # <<>>

\* as a string value, for the `a or str(b)` of the deduplication key
TextAsStr(s) == [kind |-> "str", chars |-> s]

\* event.get(k) for a text field and for a date-time field
Get(e, k) == IF k \in DOMAIN e THEN e[k] ELSE None
GetDT(e, k) == IF k \in DOMAIN e THEN e[k] ELSE NoDT

-----------------------------------------------------------------------------
(* parse_timetable_text.                                                   *)

Monday    == <<"M","o","n","d","a","y">>
Tuesday   == <<"T","u","e","s","d","a","y">>
Wednesday == <<"W","e","d","n","e","s","d","a","y">>
Thursday  == <<"T","h","u","r","s","d","a","y">>
Friday    == <<"F","r","i","d","a","y">>
Saturday  == <<"S","a","t","u","r","d","a","y">>
Sunday    == <<"S","u","n","d","a","y">>

DayLetters == {"M", "T", "W", "R", "F", "S", "U"}

\* a day_map whose 'T' and 'R' entries are exchanged
day_map_TR_exchanged(d) ==
    CASE d = "M" -> Monday   [] d = "T" -> Thursday [] d = "W" -> Wednesday
      [] d = "R" -> Tuesday  [] d = "F" -> Friday   [] d = "S" -> Saturday
      [] d = "U" -> Sunday

\* day_map of parse_timetable_text
day_map(d) ==
    CASE d = "M" -> Monday   [] d = "T" -> Tuesday [] d = "W" -> Wednesday
      [] d = "R" -> Thursday [] d = "F" -> Friday  [] d = "S" -> Saturday
      [] d = "U" -> Sunday

Subject(s) == s.code \o <<" ">> \o s.name

\* an arranged section's dict without its flag
ArrangedEventUnflagged(s) ==
    [subject        |-> s.code \o <<" ">> \o s.name,
     location       |-> s.location,
     start_time_str |-> s.start_time,
     end_time_str   |-> s.end_time]

\* the dict appended for a section whose days contain "ARR"
ArrangedEvent(s) ==
    [subject          |-> Subject(s),
     location         |-> s.location,
     needs_days_input |-> TRUE,
     start_time_str   |-> s.start_time,
     end_time_str     |-> s.end_time]

\* the dict appended for one day letter
ConcreteEvent(s, d, event_date, start_time, end_time) ==
    [subject        |-> Subject(s),
     start_datetime |-> DateTime(event_date, start_time),
     end_datetime   |-> DateTime(event_date, end_time),
     location       |-> s.location,
     day            |-> day_map(d)]

\* the body of `for d in section.days` for the letter d: the events it
\* appends (none or one)
DayEvents(s, d, now) ==
    IF d \notin DayLetters THEN <<>>
    ELSE LET event_date == get_next_weekday_date(day_map(d), now)
             start_time == parse_time(s.start_time)
             end_time   == parse_time(s.end_time)
         IN  IF start_time # NoTime /\ end_time # NoTime
             THEN <<ConcreteEvent(s, d, event_date, start_time, end_time)>>
             ELSE <<>>

IsArranged(s) == Contains(s.days, <<"A", "R", "R">>)

-----------------------------------------------------------------------------
(* The inputs of the upload handler.                                       *)

Txt9AM    == <<"9", ":", "0", "0", "A", "M">>
Txt950AM  == <<"9", ":", "5", "0", " ", "a", "m">>
Txt1430   == <<"1", "4", ":", "3", "0">>
Txt1545   == <<"1", "5", ":", "4", "5">>
Txt1205PM == <<"1", "2", ":", "0", "5", "P", "M">>
Txt1PM    == <<"1", ":", "0", "0", "p", "m">>
Txt2500   == <<"2", "5", ":", "0", "0">>
TxtTBA    == <<"T", "B", "A">>
Txt12AM   == <<"1", "2", ":", "0", "0", " ", "A", "M">>
Txt050    == <<"0", ":", "5", "0">>

Sec(code, name, loc, days, st, en) ==
    [code |-> code, name |-> name, location |-> loc, days |-> days,
     start_time |-> st, end_time |-> en]

\* what vt.crn_lookup may return
Sections ==
    { Sec(<<"CS1114">>, <<"Intro">>, <<"McBryde 100">>,
          <<"M", "W", "F">>, Txt9AM, Txt950AM),
      Sec(<<"MATH2114">>, <<"Linear Algebra">>, <<"Torg 2150">>,
          <<"T", " ", "R">>, Txt1430, Txt1545),
      Sec(<<"MUS3314">>, <<"Ensemble">>, <<"Squires 243">>,
          <<"S", "U">>, Txt1205PM, Txt1PM),
      Sec(<<"CS4994">>, <<"Research">>, <<"TBA">>,
          <<"A", "R", "R">>, TxtTBA, TxtTBA),
      Sec(<<"CS2974">>, <<"Independent Study">>, <<"TBA">>,
          <<"(", "A", "R", "R", ")">>, Txt9AM, Txt950AM),
      Sec(<<"PHYS2305">>, <<"Physics">>, <<"Robeson 210">>,
          <<"M", "X", "W">>, Txt9AM, Txt2500),
      Sec(<<"ENGL1105">>, <<"Writing">>, <<"Shanks 180">>,
          <<"R">>, TxtTBA, Txt1545),
      Sec(<<"ASTR1114">>, <<"Night Sky">>, <<"Observatory">>,
          <<"U">>, Txt12AM, Txt050),
      Sec(<<"CHEM1035">>, <<"Chemistry">>, <<"Davidson 3">>,
          <<>>, Txt9AM, Txt950AM) }

\* OCR texts handed to parse_timetable_text by the upload handler
UploadTexts ==
    { <<>>,
      <<"C", "R", "N", " ", "8", "3", "5", "3">>,
      <<"8", "3", "5", "3", "8", " ", "M", "W", "F">>,
      <<"8", "3", "5", "3", "8", "1", "2", "3", "4", "5", "6">> }

-----------------------------------------------------------------------------
(* upload_timetable_image, with parse_timetable_text stepped per CRN and   *)
(* per day letter (each step reads the clock).                             *)

ErrorResp(why) == [kind |-> "error", error |-> why]

\* the request ends before parse_timetable_text is reached
UploadRejected ==
    /\ upc = "idle"
    /\ \E why \in {"not an image", "could not process image",
                   "tesseract not installed", "failed to extract text"} :
          uploadResp' = ErrorResp(why)
    /\ upc' = "done"
    /\ UNCHANGED <<text, crns, ci, section, di, events, producedOn, emitLog>>
    /\ UNCHANGED <<clockVars, probeVars, createVars>>

\* OCR returned a text
UploadText ==
    /\ upc = "idle"
    /\ \E t \in UploadTexts : text' = t
    /\ upc' = "scan"
    /\ UNCHANGED <<crns, ci, section, di, events, producedOn, emitLog,
                   uploadResp>>
    /\ UNCHANGED <<clockVars, probeVars, createVars>>

\* crns = re.findall(r'(\d{5})', text)
Scan ==
    /\ upc = "scan"
    /\ crns' = FindAll5(text)
    /\ ci' = 1
    /\ upc' = "lookup"
    /\ UNCHANGED <<text, section, di, events, producedOn, emitLog, uploadResp>>
    /\ UNCHANGED <<clockVars, probeVars, createVars>>

\* vt.crn_lookup raised, or returned nothing, or a section without days
LookupNothing ==
    /\ upc = "lookup" /\ ci <= Len(crns)
    /\ ci' = ci + 1
    /\ UNCHANGED <<text, crns, upc, section, di, events, producedOn, emitLog,
                   uploadResp>>
    /\ UNCHANGED <<clockVars, probeVars, createVars>>

LookupSection ==
    /\ upc = "lookup" /\ ci <= Len(crns)
    /\ \E s \in Sections :
          IF IsArranged(s)
          THEN /\ events' = Append(events, ArrangedEvent(s))
               /\ producedOn' = Append(producedOn, today)
               /\ emitLog' = Append(emitLog,
                     [ci |-> ci, sec |-> s, di |-> 0, now |-> today,
                      evs |-> <<ArrangedEvent(s)>>])
               /\ ci' = ci + 1
               /\ UNCHANGED <<upc, section, di>>
          ELSE IF Len(s.days) = 0
          THEN /\ ci' = ci + 1
               /\ UNCHANGED <<upc, section, di, events, producedOn, emitLog>>
          ELSE /\ section' = s
               /\ di' = 1
               /\ upc' = "days"
               /\ UNCHANGED <<ci, events, producedOn, emitLog>>
    /\ UNCHANGED <<text, crns, uploadResp>>
    /\ UNCHANGED <<clockVars, probeVars, createVars>>

\* one pass of `for d in section.days`
DayStep ==
    /\ upc = "days"
    /\ LET evs == DayEvents(section, section.days[di], today) IN
          /\ events' = events \o evs
          /\ producedOn' = producedOn \o [k \in 1..Len(evs) |-> today]
          /\ emitLog' = Append(emitLog,
                [ci |-> ci, sec |-> section, di |-> di, now |-> today,
                 evs |-> evs])
    /\ IF di < Len(section.days)
       THEN di' = di + 1 /\ UNCHANGED <<ci, upc>>
       ELSE di' = 0 /\ ci' = ci + 1 /\ upc' = "lookup"
    /\ UNCHANGED <<text, crns, section, uploadResp>>
    /\ UNCHANGED <<clockVars, probeVars, createVars>>

\* FastAPI's encoding of the events: a datetime becomes its isoformat()
Encode(e) ==
    [k \in DOMAIN e |->
        IF k \in {"start_datetime", "end_datetime"} THEN IsoFormat(e[k])
        ELSE e[k]]

UploadDone ==
    /\ upc = "lookup" /\ ci > Len(crns)
    /\ uploadResp' =
          IF events = <<>> THEN ErrorResp("could not parse any events")
          ELSE [kind |-> "events",
                events |-> [k \in 1..Len(events) |-> Encode(events[k])]]
    /\ upc' = "done"
    /\ UNCHANGED <<text, crns, ci, section, di, events, producedOn, emitLog>>
    /\ UNCHANGED <<clockVars, probeVars, createVars>>

\* midnight passes
Tick ==
    /\ ticks < MaxTicks
    /\ today' = today + 1
    /\ ticks' = ticks + 1
    /\ UNCHANGED <<probeVars, uploadVars, createVars>>

-----------------------------------------------------------------------------
(* create_google_event.  Localizing a naive datetime to America/New_York   *)
(* and re-attaching the tzinfo leave the date and the time of day as they  *)
(* are, so a datetime is its wall-clock date and time here.                *)

DayNames == <<Monday, Tuesday, Wednesday, Thursday, Friday, Saturday, Sunday>>

\* day_map.get(day) of create_google_event: 0..6, -1 for None
TargetWeekday(day) ==
    IF \E k \in 1..7 : DayNames[k] = day
    THEN (CHOOSE k \in 1..7 : DayNames[k] = day) - 1
    ELSE -1

\* next_occurrence: today when today is the target day
NextOccurrence(target_weekday, now) ==
    now + ((target_weekday - Weekday(now)) % 7)

\* datetime.combine(date, dt.time())
OnDate(dt, date) == [dt EXCEPT !.date = date]

\* a weekday_codes list indexed by isoweekday() % 7 (Sunday first)
BydayCodeSundayFirst(start_dt) ==
    <<"SU", "MO", "TU", "WE", "TH", "FR", "SA">>[Weekday(start_dt.date) + 1]

\* weekday_codes[start_dt.weekday()]
BydayCode(start_dt) ==
    <<"MO", "TU", "WE", "TH", "FR", "SA", "SU">>[Weekday(start_dt.date) + 1]

\* the start and end the event body carries
ShiftedStart(event, now) ==
    LET target_weekday == TargetWeekday(Get(event, "day")) IN
    IF target_weekday # -1
    THEN OnDate(event.start_datetime, NextOccurrence(target_weekday, now))
    ELSE event.start_datetime

ShiftedEnd(event, now) ==
    LET target_weekday == TargetWeekday(Get(event, "day")) IN
    IF target_weekday # -1
    THEN OnDate(event.end_datetime, NextOccurrence(target_weekday, now))
    ELSE event.end_datetime

EventBody(event, now) ==
    [summary    |-> event.subject,
     location   |-> IF "location" \in DOMAIN event THEN event.location
                    ELSE <<>>,
     start      |-> ShiftedStart(event, now),
     end        |-> ShiftedEnd(event, now),
     recurrence |-> [freq  |-> "WEEKLY",
                     byday |-> BydayCode(ShiftedStart(event, now)),
                     until |-> "20251214T235959Z"],
     reminders  |-> <<[method |-> "popup", minutes |-> 15]>>]

\* How a call create_google_event(event) ends, given whether
\* get_calendar_service() and events().insert().execute() succeed.
\*   "auth_error"   get_calendar_service raised
\*   "build_error"  event['subject'] raised KeyError
\*   "insert_error" the insert raised (the body had been handed over)
\*   "success"      the event was created
create_google_event(event, now, serviceOk, insertOk) ==
    IF ~serviceOk THEN [status |-> "auth_error"]
    ELSE IF "subject" \notin DOMAIN event THEN [status |-> "build_error"]
    ELSE IF ~insertOk
         THEN [status |-> "insert_error", body |-> EventBody(event, now)]
         ELSE [status |-> "success", body |-> EventBody(event, now)]

-----------------------------------------------------------------------------
(* create_events_in_calendar.                                              *)

\* the deduplication key of an event
Key(event) ==
    << Get(event, "subject"),
       Get(event, "day"),
       IF TruthyText(Get(event, "start_time_str"))
       THEN TextAsStr(event.start_time_str)
       ELSE Str(GetDT(event, "start_datetime")),
       IF TruthyText(Get(event, "end_time_str"))
       THEN TextAsStr(event.end_time_str)
       ELSE Str(GetDT(event, "end_datetime")),
       Get(event, "location") >>

\* a loop `unique_events[key] = event` without the `if key not in` test:
\* a key keeps its first-seen place and holds the last event that has it
RECURSIVE KeptOverwriting(_, _, _)
KeptOverwriting(evs, i, kept) ==
    IF i > Len(evs) THEN kept
    ELSE IF \E k \in 1..Len(kept) : Key(evs[kept[k]]) = Key(evs[i])
         THEN KeptOverwriting(evs, i + 1,
                 [k \in 1..Len(kept) |->
                    IF Key(evs[kept[k]]) = Key(evs[i]) THEN i ELSE kept[k]])
         ELSE KeptOverwriting(evs, i + 1, Append(kept, i))

\* the first loop of the handler from input index i on; kept holds the
\* indexes whose events are the values of unique_events, in insertion order
RECURSIVE KeptFrom(_, _, _)
KeptFrom(evs, i, kept) ==
    IF i > Len(evs) THEN kept
    ELSE IF \E k \in 1..Len(kept) : Key(evs[kept[k]]) = Key(evs[i])
         THEN KeptFrom(evs, i + 1, kept)
         ELSE KeptFrom(evs, i + 1, Append(kept, i))

KeptOverwritingAll(evs) == KeptOverwriting(evs, 1, <<>>)

\* indexes in evs of list(unique_events.values())
Kept(evs) == KeptFrom(evs, 1, <<>>)

\* the two isinstance(..., str) conversions of the loop body, as far as
\* they get: [event, raised]
ConvertField(e, k) ==
    IF k \in DOMAIN e /\ IsIso(e[k]) THEN [e EXCEPT ![k] = FromIso(e[k])]
    ELSE e

ConvertRaises(e, k) == k \in DOMAIN e /\ IsStr(e[k]) /\ ~IsIso(e[k])

Converted(e) ==
    IF ConvertRaises(e, "start_datetime") THEN e
    ELSE ConvertField(ConvertField(e, "start_datetime"), "end_datetime")

ConversionFails(e) ==
    \/ ConvertRaises(e, "start_datetime")
    \/ ConvertRaises(e, "end_datetime")

\* a handler that leaves the loop at the first exception
AfterExceptionBreak(i) == Len(unique) + 1

\* `except Exception: ... continue`: the loop goes on with the next event
AfterException(i) == i + 1

\* the first loop: deduplicate
Dedup ==
    /\ cpc = "dedup"
    /\ uniqueFrom' = Kept(input)
    /\ unique' = [k \in 1..Len(Kept(input)) |-> input[Kept(input)[k]]]
    /\ idx' = 1
    /\ cpc' = "loop"
    /\ UNCHANGED <<input, creation_results, submitted, outcome, serviceCalls,
                   response>>
    /\ UNCHANGED <<clockVars, probeVars, uploadVars>>

\* one pass of the second loop
ProcessEvent ==
    /\ cpc = "loop" /\ idx <= Len(unique)
    /\ LET event == Converted(unique[idx]) IN
       /\ unique' = [unique EXCEPT ![idx] = event]
       /\ IF ConversionFails(unique[idx])
          THEN /\ outcome' = Append(outcome, "convert_error")
               /\ idx' = AfterException(idx)
               /\ UNCHANGED <<creation_results, submitted, serviceCalls>>
          ELSE IF ~(TruthyDT(GetDT(event, "start_datetime"))
                    /\ TruthyDT(GetDT(event, "end_datetime")))
          THEN /\ outcome' = Append(outcome, "skipped")
               /\ idx' = idx + 1
               /\ UNCHANGED <<creation_results, submitted, serviceCalls>>
          ELSE \E serviceOk \in BOOLEAN, insertOk \in BOOLEAN :
               LET r == create_google_event(event, today, serviceOk, insertOk)
               IN
               /\ serviceCalls' = serviceCalls + 1
               /\ submitted' =
                     IF r.status \in {"insert_error", "success"}
                     THEN Append(submitted,
                             [src |-> idx, now |-> today, body |-> r.body,
                              created |-> r.status = "success"])
                     ELSE submitted
               /\ IF r.status # "success"
                  THEN /\ outcome' = Append(outcome, r.status)
                       /\ idx' = AfterException(idx)
                       /\ UNCHANGED creation_results
                  ELSE IF "day" \notin DOMAIN event
                  THEN \* the print after the call raises KeyError
                       /\ outcome' = Append(outcome, "print_error")
                       /\ idx' = AfterException(idx)
                       /\ UNCHANGED creation_results
                  ELSE /\ outcome' = Append(outcome, "created")
                       /\ idx' = idx + 1
                       /\ creation_results' = Append(creation_results,
                             [status |-> "success",
                              id |-> Len(submitted) + 1])
    /\ UNCHANGED <<cpc, input, uniqueFrom, response>>
    /\ UNCHANGED <<clockVars, probeVars, uploadVars>>

\* return {"results": ..., "message": f"Created {len(creation_results)} ..."}
Respond ==
    /\ cpc = "loop" /\ idx > Len(unique)
    /\ response' = [kind |-> "ok", results |-> creation_results,
                    created |-> Len(creation_results)]
    /\ cpc' = "done"
    /\ UNCHANGED <<input, unique, uniqueFrom, idx, creation_results,
                   submitted, outcome, serviceCalls>>
    /\ UNCHANGED <<clockVars, probeVars, uploadVars>>

-----------------------------------------------------------------------------
(* A direct call of get_next_weekday_date.                                 *)

NoCall == [fn |-> "none"]
NoRet  == [kind |-> "none"]

\* "mOnDaY": every second letter in upper case
Alternating(s) ==
    [i \in 1..Len(s) |-> IF i % 2 = 0 THEN UpperChar(s[i]) ELSE s[i]]

\* spellings of the weekday with index k (0 = Monday)
Spellings(k) ==
    { DayNames[k + 1], days_of_week[k + 1], Upper(days_of_week[k + 1]),
      Alternating(days_of_week[k + 1]) }

\* day names that are no weekday
UnknownDayNames ==
    { <<>>, <<"M", "o", "n">>, <<"F", "u", "n", "d", "a", "y">>,
      <<"M", "o", "n", "d", "a", "y", " ">> }

DayNameInputs == UNION {Spellings(k) : k \in 0..6} \cup UnknownDayNames

CallGetNextWeekdayDate ==
    /\ call.fn = "get_next_weekday_date" /\ ret = NoRet
    /\ ret' = [kind |-> "date", now |-> today,
               value |-> get_next_weekday_date(call.day_name, today)]
    /\ UNCHANGED <<call, clockVars, uploadVars, createVars>>

-----------------------------------------------------------------------------
(* The inputs of the create handler.                                       *)

CS1114 == <<"CS1114", " ", "Intro">>
McBryde == <<"McBryde 100">>

\* a Monday 9:00-9:50 class as the upload response carries it
EvMonday ==
    [subject |-> CS1114, location |-> McBryde, day |-> Monday,
     start_datetime |-> IsoStr(7, 9, 0, "T"),
     end_datetime   |-> IsoStr(7, 9, 50, "T")]

\* the same commitment, with a field the key does not read
EvMondayNoted ==
    [subject |-> CS1114, location |-> McBryde, day |-> Monday,
     start_datetime |-> IsoStr(7, 9, 0, "T"),
     end_datetime   |-> IsoStr(7, 9, 50, "T"),
     note |-> <<"bring laptop">>]

\* the same instants written with a space for the T
EvMondaySpaced ==
    [subject |-> CS1114, location |-> McBryde, day |-> Monday,
     start_datetime |-> IsoStr(7, 9, 0, " "),
     end_datetime   |-> IsoStr(7, 9, 50, " ")]

\* a concrete event without a 'day'
EvNoDay ==
    [subject |-> <<"MATH2114", " ", "Linear Algebra">>,
     location |-> <<"Torg 2150">>,
     start_datetime |-> IsoStr(8, 14, 30, "T"),
     end_datetime   |-> IsoStr(8, 15, 45, "T")]

\* an arranged section's event, as parse_timetable_text makes it
EvArranged ==
    [subject |-> <<"CS4994", " ", "Research">>, location |-> <<"TBA">>,
     needs_days_input |-> TRUE,
     start_time_str |-> TxtTBA, end_time_str |-> TxtTBA]

\* a start that is no ISO date-time
EvBadStart ==
    [subject |-> <<"ENGL1105", " ", "Writing">>, location |-> <<"Shanks 180">>,
     day |-> Thursday,
     start_datetime |-> BadStr,
     end_datetime   |-> IsoStr(10, 15, 45, "T")]

\* no 'subject'
EvNoSubject ==
    [location |-> <<"Squires 243">>, day |-> Saturday,
     start_datetime |-> IsoStr(12, 12, 5, "T"),
     end_datetime   |-> IsoStr(12, 13, 0, "T")]

EventPool ==
    { EvMonday, EvMondayNoted, EvMondaySpaced, EvNoDay, EvArranged,
      EvBadStart, EvNoSubject }

EventLists == UNION { [1..n -> EventPool] : n \in 0..MaxEvents }

\* labels given to create_google_event directly: the seven names, a name
\* in lower case, a word that is no day, and no label
BuilderLabels ==
    { DayNames[k] : k \in 1..7 } \cup { days_of_week[1], TxtTBA, None }

BuilderEvents ==
    { IF label = None
      THEN [subject |-> CS1114, location |-> McBryde,
            start_datetime |-> IsoStr(d, t[1], t[2], "T"),
            end_datetime   |-> IsoStr(d + over, t[3], t[4], "T")]
      ELSE [subject |-> CS1114, location |-> McBryde, day |-> label,
            start_datetime |-> IsoStr(d, t[1], t[2], "T"),
            end_datetime   |-> IsoStr(d + over, t[3], t[4], "T")]
      : label \in BuilderLabels, d \in 0..MaxEventDay, over \in {0, 1},
        t \in { <<9, 0, 9, 50>>, <<23, 30, 0, 20>> } }

\* OCR texts with at most one CRN
PipelineTexts ==
    { <<"8", "3", "5", "3", "8">>,
      <<"C", "R", "N", " ", "8", "3", "5", "3">>,
      <<"8", "3", "5", "3", "8", " ", "M", "W", "F">> }

\* texts for the 5-digit scan alone
ScanChars == {"1", "2", "x"}
ScanTexts == UNION { [1..n -> ScanChars] : n \in 0..MaxTextLen }

\* the client posts the events of the upload response
Post ==
    /\ upc = "done" /\ uploadResp.kind = "events" /\ cpc = "idle"
    /\ input' = uploadResp.events
    /\ cpc' = "dedup"
    /\ UNCHANGED <<unique, uniqueFrom, idx, creation_results, submitted,
                   outcome, serviceCalls, response>>
    /\ UNCHANGED <<clockVars, probeVars, uploadVars>>

-----------------------------------------------------------------------------
(* Specifications.                                                         *)

ProbeIdle == call = NoCall /\ ret = NoRet

UploadAt(pc, t) ==
    /\ text = t /\ crns = <<>> /\ upc = pc /\ ci = 0 /\ di = 0
    /\ section = [days |-> <<>>]
    /\ events = <<>> /\ producedOn = <<>> /\ emitLog = <<>>
    /\ uploadResp = [kind |-> "none"]

CreateAt(pc, evs) ==
    /\ cpc = pc /\ input = evs /\ unique = <<>> /\ uniqueFrom = <<>>
    /\ idx = 0 /\ creation_results = <<>> /\ submitted = <<>>
    /\ outcome = <<>> /\ serviceCalls = 0
    /\ response = [kind |-> "none"]

\* the 5-digit scan on every short text
InitExtract ==
    /\ today = 0 /\ ticks = 0 /\ ProbeIdle
    /\ \E t \in ScanTexts : UploadAt("scan", t)
    /\ CreateAt("idle", <<>>)

NextExtract == Scan

SpecExtract == InitExtract /\ [][NextExtract]_vars

\* get_next_weekday_date on every spelling and every weekday
InitWeekday ==
    /\ today \in 0..MaxStartDay /\ ticks = 0
    /\ \E n \in DayNameInputs :
          call = [fn |-> "get_next_weekday_date", day_name |-> n]
    /\ ret = NoRet
    /\ UploadAt("idle", <<>>)
    /\ CreateAt("idle", <<>>)

NextWeekday == CallGetNextWeekdayDate \/ Tick

SpecWeekday == InitWeekday /\ [][NextWeekday]_vars

\* the upload handler
InitParse ==
    /\ today \in 0..MaxStartDay /\ ticks = 0 /\ ProbeIdle
    /\ UploadAt("idle", <<>>)
    /\ CreateAt("idle", <<>>)

NextParse ==
    \/ UploadRejected \/ UploadText \/ Scan \/ LookupNothing
    \/ LookupSection \/ DayStep \/ UploadDone \/ Tick

SpecParse == InitParse /\ [][NextParse]_vars

\* the create handler on every short list of the pool
InitCreate ==
    /\ today = 0 /\ ticks = 0 /\ ProbeIdle
    /\ UploadAt("idle", <<>>)
    /\ \E evs \in EventLists : CreateAt("dedup", evs)

NextCreate == Dedup \/ ProcessEvent \/ Respond

SpecCreate == InitCreate /\ [][NextCreate]_vars

\* the create handler on one event, on every weekday
InitBuilder ==
    /\ today \in 0..MaxStartDay /\ ticks = 0 /\ ProbeIdle
    /\ UploadAt("idle", <<>>)
    /\ \E e \in BuilderEvents : CreateAt("dedup", <<e>>)

NextBuilder == Dedup \/ ProcessEvent \/ Respond \/ Tick

SpecBuilder == InitBuilder /\ [][NextBuilder]_vars

\* an upload whose events are then posted to /create-events
InitPipeline ==
    /\ today \in 0..MaxStartDay /\ ticks = 0 /\ ProbeIdle
    /\ \E t \in PipelineTexts : UploadAt("scan", t)
    /\ CreateAt("idle", <<>>)

NextPipeline ==
    \/ Scan \/ LookupNothing \/ LookupSection \/ DayStep \/ UploadDone
    \/ Post \/ Dedup \/ ProcessEvent \/ Respond \/ Tick

SpecPipeline == InitPipeline /\ [][NextPipeline]_vars

Init == InitPipeline
Next == NextPipeline
Spec == SpecPipeline

-----------------------------------------------------------------------------
(* Properties.                                                             *)

\* positions of s at which a 5-digit identifier starts: five digits, at a
\* multiple of five from the start of the maximal digit run they are in
RunStart(s, i) ==
    CHOOSE j \in 1..i :
        /\ \A k \in j..i : s[k] \in Digits
        /\ j = 1 \/ s[j - 1] \notin Digits

IdentifierStarts(s) ==
    { i \in 1..(Len(s) - 4) :
        /\ \A k \in i..(i + 4) : s[k] \in Digits
        /\ (i - RunStart(s, i)) % 5 = 0 }

\* C9: the 5-digit scan returns, in text order and with duplicates, one
\* identifier per non-overlapping 5-digit run: as many as there are such
\* runs (two for ten digits in a row, none for fewer than five digits or
\* for the empty text), each the five digits of its run
C9_OneIdentifierPerRun ==
    upc = "lookup" =>
        LET starts == IdentifierStarts(text) IN
        /\ Len(crns) = Cardinality(starts)
        /\ \A i \in starts :
              crns[Cardinality({j \in starts : j < i}) + 1]
                 = SubSeq(text, i, i + 4)
        /\ Len(text) < 5 => crns = <<>>
        /\ (Len(text) = 10 /\ AllDigits(text)) =>
              crns = <<SubSeq(text, 1, 5), SubSeq(text, 6, 10)>>

C9_TenDigitsScanned ==
    /\ upc = "lookup"
    /\ Len(text) = 10 /\ AllDigits(text)
    /\ text[1] # text[6]
    /\ Len(crns) = 2

\* C5: for each of the seven weekday names in any letter case and every
\* date today, get_next_weekday_date returns a date 1 to 7 days after
\* today that falls on the named weekday, and today + 7 when today is
\* that weekday
C5_NextWeekdayIsOneToSevenAhead ==
    ret # NoRet =>
        \A k \in 0..6 :
            call.day_name \in Spellings(k) =>
                /\ ret.value - ret.now \in 1..7
                /\ ret.value # ret.now
                /\ Weekday(ret.value) = k
                /\ Weekday(ret.now) = k => ret.value = ret.now + 7
                /\ (k = 2 /\ Weekday(ret.now) = 0) => ret.value = ret.now + 2

C5_SameWeekdayCalled ==
    /\ ret # NoRet
    /\ call.day_name = <<"M", "O", "N", "D", "A", "Y">>
    /\ Weekday(ret.now) = 0
    /\ ret.value = ret.now + 7

\* the weekday (0 = Monday) a day letter stands for, -1 for any other
\* character
LetterWeekday(d) ==
    CASE d = "M" -> 0 [] d = "T" -> 1 [] d = "W" -> 2 [] d = "R" -> 3
      [] d = "F" -> 4 [] d = "S" -> 5 [] d = "U" -> 6 [] OTHER -> -1

RECURSIVE Flatten(_)
Flatten(log) ==
    IF log = <<>> THEN <<>> ELSE log[1].evs \o Flatten(Tail(log))

TimeOfDay(dt) == <<dt.hour, dt.minute>>

\* C6: a resolved section that is not arranged gives, letter by letter in
\* the order of its days, one event per letter of M,T,W,R,F,S,U when both
\* time strings parse and none otherwise; the event is labelled with the
\* letter's weekday, its start falls on that weekday, start and end share
\* the date, and two different letters of a section give different dates
\* with the same times of day
C6_OneOccurrencePerDayLetter ==
    /\ events = Flatten(emitLog)
    /\ \A n \in 1..Len(emitLog) :
          LET en == emitLog[n]
              s  == en.sec
          IN  en.di > 0 =>
              /\ ~IsArranged(s)
              /\ en.di > 1 =>
                    /\ emitLog[n - 1].ci = en.ci
                    /\ emitLog[n - 1].di = en.di - 1
              /\ en.di = 1 => (n = 1 \/ emitLog[n - 1].ci < en.ci)
              /\ (n < Len(emitLog) \/ upc # "days") /\ en.di < Len(s.days)
                    => /\ n < Len(emitLog)
                       /\ emitLog[n + 1].ci = en.ci
                       /\ emitLog[n + 1].di = en.di + 1
              /\ IF /\ LetterWeekday(s.days[en.di]) # -1
                    /\ parse_time(s.start_time) # NoTime
                    /\ parse_time(s.end_time) # NoTime
                 THEN /\ Len(en.evs) = 1
                      /\ en.evs[1].day
                            = DayNames[LetterWeekday(s.days[en.di]) + 1]
                      /\ Weekday(en.evs[1].start_datetime.date)
                            = LetterWeekday(s.days[en.di])
                      /\ en.evs[1].end_datetime.date
                            = en.evs[1].start_datetime.date
                      /\ TimeOfDay(en.evs[1].start_datetime)
                            = TimeOfDay(parse_time(s.start_time))
                      /\ TimeOfDay(en.evs[1].end_datetime)
                            = TimeOfDay(parse_time(s.end_time))
                      /\ en.evs[1].subject = s.code \o <<" ">> \o s.name
                      /\ en.evs[1].location = s.location
                 ELSE en.evs = <<>>
    /\ \A n, m \in 1..Len(emitLog) :
          LET a == emitLog[n]
              b == emitLog[m]
          IN  (/\ a.ci = b.ci /\ a.di > 0 /\ b.di > 0
               /\ a.evs # <<>> /\ b.evs # <<>>
               /\ a.sec.days[a.di] # b.sec.days[b.di])
              => /\ a.evs[1].start_datetime.date
                       # b.evs[1].start_datetime.date
                 /\ TimeOfDay(a.evs[1].start_datetime)
                       = TimeOfDay(b.evs[1].start_datetime)
                 /\ TimeOfDay(a.evs[1].end_datetime)
                       = TimeOfDay(b.evs[1].end_datetime)

C6_MondayWednesdayFridayParsed ==
    /\ upc = "done"
    /\ Len(events) = 3
    /\ emitLog[1].sec.days = <<"M", "W", "F">>
    /\ events[1].day = Monday /\ events[2].day = Wednesday
    /\ events[3].day = Friday
    /\ emitLog[1].now # emitLog[3].now

\* C7: a resolved section whose days are the arranged marker gives exactly
\* one event: flagged needs_days_input, carrying the section's two time
\* strings as they are, with no day, no start_datetime and no end_datetime,
\* whatever the time strings are
C7_ArrangedSectionGivesOneFlaggedEvent ==
    \A n \in 1..Len(emitLog) :
        LET en == emitLog[n] IN
        /\ Contains(en.sec.days, <<"A", "R", "R">>) <=> en.di = 0
        /\ en.di = 0 =>
              /\ Len(en.evs) = 1
              /\ "needs_days_input" \in DOMAIN en.evs[1]
              /\ en.evs[1].needs_days_input = TRUE
              /\ en.evs[1].start_time_str = en.sec.start_time
              /\ en.evs[1].end_time_str = en.sec.end_time
              /\ DOMAIN en.evs[1] \cap
                    {"day", "start_datetime", "end_datetime"} = {}
              /\ \A m \in 1..Len(emitLog) : emitLog[m].ci = en.ci => m = n

C7_ArrangedSectionParsed ==
    /\ upc = "done"
    /\ \E n \in 1..Len(emitLog) :
          /\ emitLog[n].sec.days = <<"A", "R", "R">>
          /\ emitLog[n].evs # <<>>
    /\ \E n \in 1..Len(emitLog) :
          /\ emitLog[n].di = 0
          /\ parse_time(emitLog[n].sec.start_time) # NoTime

StrictlyIncreasing(q) == \A a, b \in 1..Len(q) : a < b => q[a] < q[b]

Sources == [n \in 1..Len(submitted) |-> submitted[n].src]

\* the input event behind the n-th insert call
InputOf(n) == input[uniqueFrom[submitted[n].src]]

\* C1: after deduplication the kept events are, in input order, exactly
\* the first input event of each distinct key, so no two of them (and no
\* two events handed to the calendar) have equal keys; they are processed
\* in that order
C1_FirstOfEachKeyInInputOrder ==
    cpc # "dedup" /\ cpc # "idle" =>
        /\ StrictlyIncreasing(uniqueFrom)
        /\ \A k \in 1..Len(uniqueFrom) :
              /\ uniqueFrom[k] \in 1..Len(input)
              /\ \A j \in 1..(uniqueFrom[k] - 1) :
                    Key(input[j]) # Key(input[uniqueFrom[k]])
        /\ \A i \in 1..Len(input) :
              \E k \in 1..Len(uniqueFrom) :
                  Key(input[uniqueFrom[k]]) = Key(input[i])
        /\ Len(unique) = Len(uniqueFrom)
        /\ \A k \in 1..Len(unique) :
              k >= idx => unique[k] = input[uniqueFrom[k]]
        /\ Len(outcome) = idx - 1
        /\ StrictlyIncreasing(Sources)
        /\ \A n, m \in 1..Len(submitted) :
              n # m => Key(InputOf(n)) # Key(InputOf(m))
        /\ \A n \in 1..Len(submitted) :
              submitted[n].body.summary = InputOf(n).subject

C1_DuplicateDiscarded ==
    /\ cpc = "done"
    /\ Len(input) = 3 /\ Len(unique) = 2
    /\ Key(input[1]) = Key(input[3]) /\ input[1] # input[3]
    /\ Len(submitted) = 2

Created == { n \in 1..Len(submitted) : submitted[n].created }

\* C2: the N of the message and the length of the results both equal the
\* number of events that were inserted into the calendar
C2_CountEqualsInserted ==
    cpc = "done" =>
        /\ response.created = Cardinality(Created)
        /\ Len(response.results) = Cardinality(Created)

\* whether the loop body reaches create_google_event for the event e
ReachesCreate(e) ==
    /\ ~ConversionFails(e)
    /\ TruthyDT(GetDT(e, "start_datetime"))
    /\ TruthyDT(GetDT(e, "end_datetime"))

C3_EveryEventAttemptedOnce ==
    /\ response.kind \in {"none", "ok"}
    /\ StrictlyIncreasing(Sources)
    /\ Len(outcome) <= Len(unique)
    /\ \A k \in 1..Len(outcome) :
          /\ outcome[k] \in {"created", "print_error"}
                => \E n \in Created : submitted[n].src = k
          /\ outcome[k] = "insert_error"
                => \E n \in 1..Len(submitted) : submitted[n].src = k
          /\ ~ReachesCreate(input[uniqueFrom[k]])
                => \A n \in 1..Len(submitted) : submitted[n].src # k
    /\ cpc = "done" =>
          /\ response.kind = "ok"
          /\ Len(outcome) = Len(unique)
          /\ serviceCalls =
                Cardinality({k \in 1..Len(unique) :
                                ReachesCreate(input[uniqueFrom[k]])})

\* C3: each deduplicated event is handed to the calendar at most once and
\* in order; an exception in one pass of the loop leaves the later events
\* to be processed, the handler still returns its normal response, and no
\* insert call that was made is ever taken back
C3_PerItemNonAtomic ==
    /\ []C3_EveryEventAttemptedOnce
    /\ [][SubSeq(submitted', 1, Len(submitted)) = submitted]_vars

C3_CreatedAfterFailure ==
    /\ cpc = "done"
    /\ Len(outcome) = 3
    /\ outcome[1] = "created"
    /\ outcome[2] \in {"auth_error", "insert_error", "build_error",
                       "convert_error"}
    /\ outcome[3] = "created"

\* C4: a get_calendar_service failure during a batch ends the batch with an
\* error result, and the call is not made again
C4_AuthFailureEndsBatchWithError ==
    \A k \in 1..Len(outcome) :
        outcome[k] = "auth_error" =>
            /\ cpc = "done" => response.kind = "error"
            /\ \A l \in (k + 1)..Len(outcome) :
                  outcome[l] \in {"skipped", "convert_error"}

\* the two-letter code of the weekday k (0 = Monday)
CodeOfWeekday(k) ==
    CASE k = 0 -> "MO" [] k = 1 -> "TU" [] k = 2 -> "WE" [] k = 3 -> "TH"
      [] k = 4 -> "FR" [] k = 5 -> "SA" [] k = 6 -> "SU"

\* C8: the BYDAY code of every event body handed to the calendar is the
\* code of the weekday of the body's start; when the event carries one of
\* the seven day names, that code is the code of the named weekday, start
\* and end are on one date, and their times of day are the event's
C8_BydayIsWeekdayOfStart ==
    \A n \in 1..Len(submitted) :
        LET b == submitted[n].body
            e == InputOf(n)
        IN  /\ b.recurrence.freq = "WEEKLY"
            /\ b.recurrence.byday = CodeOfWeekday(Weekday(b.start.date))
            /\ \A k \in 0..6 :
                  ("day" \in DOMAIN e /\ e.day = DayNames[k + 1]) =>
                      /\ b.recurrence.byday = CodeOfWeekday(k)
                      /\ b.end.date = b.start.date
                      /\ TimeOfDay(b.start) = TimeOfDay(e.start_datetime)
                      /\ TimeOfDay(b.end) = TimeOfDay(e.end_datetime)
            /\ "day" \notin DOMAIN e =>
                  /\ b.start = FromIso(e.start_datetime)
                  /\ b.end = FromIso(e.end_datetime)

C8_LabelledEventMoved ==
    \E n \in 1..Len(submitted) :
        /\ "day" \in DOMAIN InputOf(n)
        /\ InputOf(n).day = Wednesday
        /\ Weekday(InputOf(n).start_datetime.date) = 4
        /\ InputOf(n).end_datetime.date # InputOf(n).start_datetime.date
        /\ submitted[n].body.recurrence.byday = "WE"
        /\ submitted[n].created

\* C10: an event that parse_timetable_text produced and that
\* create_google_event handles on the same date starts, in the event body,
\* on the date of its start_datetime
C10_BuilderKeepsNormalizerDate ==
    \A n \in 1..Len(submitted) :
        LET i == uniqueFrom[submitted[n].src] IN
        producedOn[i] = submitted[n].now =>
            submitted[n].body.start.date = events[i].start_datetime.date

=============================================================================
